---- MODULE Spec2Model ----
(***************************************************************************)
(* Execution Session Manager of the problem view (ProblemDetailPage):      *)
(* debounced auto-save, run/submit over a WebSocket, language switch and   *)
(* unmount, as asynchronous handlers that interleave at their awaits.      *)
(*                                                                         *)
(* A handler reads the React state of the render it was created in; since  *)
(* a render follows every state update before the next event is handled,   *)
(* a handler captures the state at the moment it is invoked and keeps that *)
(* snapshot across its awaits.  Refs are read live.                        *)
(* State updates of an unmounted component are dropped.                    *)
(* isConnected is written by the socket callbacks and read nowhere; it is  *)
(* left out.                                                               *)
(***************************************************************************)
EXTENDS Integers, Sequences, FiniteSets, TLC

\* ---------------------------------------------------------------- bounds
\* user events (editor changes, Run/Submit calls, language selections, route
\* changes) per Session
MaxEvents == 2

\* ------------------------------------------------------------ code values
\* language ids of languagesAPI.list(); 0 stands for null / undefined
Langs == {1, 2}

\* a code text: lang is the language the text was loaded or written for,
\* v tells the texts of one language apart
Empty == [lang |-> 0, v |-> 0]
Space == [lang |-> 0, v |-> -1]
Dyn(l) == [lang |-> l, v |-> 0]
Static(l) == [lang |-> l, v |-> -1]
Prior(l) == [lang |-> l, v |-> -2]
Typed(l, n) == [lang |-> l, v |-> n]

\* JavaScript truthiness of a string: only "" is falsy
Truthy(c) == c # Empty

\* code.trim() is truthy: the text has a non-whitespace character
Trimmed(c) == c # Empty /\ c # Space

VARIABLES
    auth,               \* isAuthenticated
    lockedLang,         \* problem.language of the problem the server returns (0: multi-language)
    languages,          \* languages state once loaded (what languagesAPI.list returns)
    attempts,           \* server: saved attempt code per language
    mounted,
    loading,
    fetching,           \* a fetchData call has not finished yet
    slug,               \* the route parameter: which problem the page shows
    problem,            \* problem state is non-null
    currentProblemRef,  \* currentProblemRef.current is non-null
    selectedLanguage,
    code,
    currentCodeRef,
    codeInitializedRef,
    timers,             \* pending setTimeout callbacks of handleCodeChange
    saveTimeoutRef,     \* saveTimeoutRef.current: id of the last timer set, 0 when null
    saves,              \* attemptAPI.update calls that have not returned yet
    saving,
    savedAt,            \* number of times savedAt was set (0: still null)
    executing,
    submitting,
    output,
    submissionStatus,
    wsConnection,       \* wsConnection state: connection id, 0 when null
    wsCaptured,         \* wsConnection as captured by the memoized initializeWebSocket
    conns,              \* readyState of every WebSocket created
    inv,                \* handleRunCode / handleSubmitCode invocations
    sw,                 \* handleLanguageChange invocations
    bufSeq,             \* number of buffer changes so far
    nEvents,            \* user events so far
    runSeq,             \* buffer version of the latest run/submit save issued, 0 if none
    lastChange          \* the code of the latest handleCodeChange call

vars == <<auth, lockedLang, languages, attempts, mounted, loading, fetching, slug, problem,
          currentProblemRef, selectedLanguage, code, currentCodeRef,
          codeInitializedRef, timers, saveTimeoutRef, saves, saving, savedAt,
          executing, submitting, output, submissionStatus, wsConnection,
          wsCaptured, conns, inv, sw, bufSeq, nEvents, runSeq, lastChange>>

envVars == <<auth, lockedLang, languages>>
uiRun == <<executing, submitting, output, submissionStatus>>
wsVars == <<wsConnection, wsCaptured, conns>>
timerVars == <<timers, saveTimeoutRef>>
bufVars == <<code, currentCodeRef, bufSeq>>
loadVars == <<loading, fetching, slug, problem, currentProblemRef, codeInitializedRef>>

NoOutput == [kind |-> "none", of |-> 0]

\* the problems the route can name
Slugs == {1, 2}

\* what the server may hold for the user's attempts at one problem: nothing,
\* or code saved earlier for every language
Stores == [Langs -> {Empty}] \cup {[l \in Langs |-> Prior(l)]}

Init ==
    /\ auth \in BOOLEAN
    /\ \E ll \in {0, 1}, ls \in {Langs, {}} :
          /\ (ls = {} => ll = 0)
          /\ lockedLang = ll
          /\ languages = ls
    /\ attempts \in Stores
    /\ mounted = TRUE
    /\ loading = TRUE
    /\ fetching = TRUE
    /\ slug = 1
    /\ problem = FALSE
    /\ currentProblemRef = FALSE
    /\ selectedLanguage = 0
    /\ code = Empty
    /\ currentCodeRef = Empty
    /\ codeInitializedRef = FALSE
    /\ timers = {}
    /\ saveTimeoutRef = 0
    /\ saves = {}
    /\ saving = FALSE
    /\ savedAt = 0
    /\ executing = FALSE
    /\ submitting = FALSE
    /\ output = NoOutput
    /\ submissionStatus = FALSE
    /\ wsConnection = 0
    /\ wsCaptured = 0
    /\ conns = <<>>
    /\ inv = <<>>
    /\ sw = <<>>
    /\ bufSeq = 0
    /\ nEvents = 0
    /\ runSeq = 0
    /\ lastChange = Empty

\* ------------------------------------------------------------- helpers
SetAt(seq, k, fld, val) == [seq EXCEPT ![k] = [seq[k] EXCEPT ![fld] = val]]

\* the server applies a write: last write wins per (problem, language);
\* a write without a language touches no language's attempt, and store holds
\* the attempts at the problem of the route only
Written(store, s, ok) ==
    IF ok /\ s.lang \in Langs /\ s.slug = slug
    THEN [store EXCEPT ![s.lang] = s.code]
    ELSE store

\* a new attemptAPI.update call: who is the timer or invocation that made it,
\* seq the buffer version its code was read at
SaveCall(sl, l, c, origin, who, seq) ==
    [slug |-> sl, lang |-> l, code |-> c, origin |-> origin, who |-> who, seq |-> seq]

\* the guard of saveAttempt: it returns without a call unless all four hold
\* (slug is the route parameter, always present on this page)
SaveAttemptPasses(a, p, l) == a /\ p /\ l # 0

\* (mutant: the timestamp is set whether or not the call succeeded)
SavedAtAfter_Always(ok) == IF mounted THEN savedAt + 1 ELSE savedAt

\* saveAttempt after its call returned: setSavedAt runs only when the call
\* did not throw
SavedAtAfter(ok) == IF ok /\ mounted THEN savedAt + 1 ELSE savedAt

\* (mutant: the timer is left pending)
Cleared_Kept(ts, ref) == ts

\* clearTimeout(saveTimeoutRef.current)
Cleared(ts, ref) == {t \in ts : t.id # ref}

\* ------------------------------------------------------ initial load
\* the language fetchData selects
InitialLanguage ==
    IF lockedLang # 0 THEN lockedLang
    ELSE IF languages # {} THEN CHOOSE l \in languages : \A m \in languages : l <= m
    ELSE 0

\* (mutant: a failed fetch leaves the buffer as it is)
Boilerplate_Kept(l, bpOk) == IF bpOk THEN Dyn(l) ELSE code

\* the starter code of language l: fetched boilerplate, else the static default
Boilerplate(l, bpOk) == IF bpOk THEN Dyn(l) ELSE Static(l)

\* the buffer fetchData ends with
InitialCode(il, readOk, bpOk) ==
    IF il = 0 THEN code
    ELSE IF auth /\ readOk /\ Trimmed(attempts[il]) THEN attempts[il]
    ELSE Boilerplate(il, bpOk)

\* fetchData, all requests succeeding up to the attempt read
FetchData ==
    /\ mounted /\ fetching
    /\ \E readOk \in BOOLEAN, bpOk \in BOOLEAN :
         LET il == InitialLanguage
             c == InitialCode(il, readOk, bpOk)
         IN /\ selectedLanguage' = il
            /\ code' = c
            /\ currentCodeRef' = c
    /\ problem' = TRUE
    /\ currentProblemRef' = TRUE
    /\ codeInitializedRef' = TRUE
    /\ loading' = FALSE
    /\ fetching' = FALSE
    /\ bufSeq' = bufSeq + 1
    /\ wsCaptured' = wsConnection
    /\ UNCHANGED <<envVars, attempts, mounted, slug, timerVars, saves, saving, savedAt,
                   uiRun, wsConnection, conns, inv, sw, nEvents, runSeq, lastChange>>

\* fetchData when the languages or the problem request fails
FetchDataFails ==
    /\ mounted /\ fetching
    /\ loading' = FALSE
    /\ fetching' = FALSE
    /\ UNCHANGED <<envVars, attempts, mounted, slug, problem, currentProblemRef,
                   codeInitializedRef, selectedLanguage, bufVars, timerVars,
                   saves, saving, savedAt, uiRun, wsVars, inv, sw, nEvents, runSeq, lastChange>>

\* the editor and the buttons are rendered
Interactive == mounted /\ ~loading /\ problem

\* ---------------------------------------------------------- auto-save
\* the texts the user can leave in the editor with one change
NewCodes ==
    {Empty, Space,
     Typed(IF code.lang # 0 THEN code.lang ELSE selectedLanguage, bufSeq + 1)}

\* (mutant: the callback saves the code state of the render, not newCode)
ArmedTimers_Stale(newCode) ==
    IF auth /\ codeInitializedRef
    THEN {[id |-> bufSeq + 1, code |-> code, lang |-> selectedLanguage, slug |-> slug]}
    ELSE {}

\* (mutant: the timer is armed before the buffer is initialized)
ArmedTimers_Unchecked(newCode) ==
    IF auth
    THEN {[id |-> bufSeq + 1, code |-> newCode, lang |-> selectedLanguage, slug |-> slug]}
    ELSE {}

\* the timer handleCodeChange arms, if it arms one
ArmedTimers(newCode) ==
    IF auth /\ codeInitializedRef
    THEN {[id |-> bufSeq + 1, code |-> newCode, lang |-> selectedLanguage, slug |-> slug]}
    ELSE {}

handleCodeChange(newCode) ==
    /\ Interactive
    /\ nEvents < MaxEvents
    /\ nEvents' = nEvents + 1
    /\ code' = newCode
    /\ currentCodeRef' = newCode
    /\ lastChange' = newCode
    /\ bufSeq' = bufSeq + 1
    /\ timers' = Cleared(timers, saveTimeoutRef) \cup ArmedTimers(newCode)
    /\ saveTimeoutRef' = IF ArmedTimers(newCode) # {} THEN bufSeq + 1 ELSE saveTimeoutRef
    /\ UNCHANGED <<envVars, attempts, mounted, loadVars, selectedLanguage, saves,
                   saving, savedAt, uiRun, wsVars, inv, sw, runSeq>>

\* a debounce timer expires: saveAttempt(newCode), not silent
TimerFires(t) ==
    /\ t \in timers
    /\ timers' = timers \ {t}
    /\ IF SaveAttemptPasses(auth, TRUE, t.lang)
       THEN /\ saves' = saves \cup {SaveCall(t.slug, t.lang, t.code, "timer", 0, t.id)}
            /\ saving' = IF mounted THEN TRUE ELSE saving
       ELSE UNCHANGED <<saves, saving>>
    /\ UNCHANGED <<envVars, attempts, mounted, loadVars, selectedLanguage, bufVars,
                   saveTimeoutRef, savedAt, uiRun, wsVars, inv, sw, nEvents, runSeq, lastChange>>

\* the call of a debounced save returns
TimerSaveReturns(k, ok) ==
    /\ k \in saves
    /\ k.origin = "timer"
    /\ saves' = saves \ {k}
    /\ attempts' = Written(attempts, k, ok)
    /\ savedAt' = SavedAtAfter(ok)
    /\ saving' = IF mounted THEN FALSE ELSE saving
    /\ UNCHANGED <<envVars, mounted, loadVars, selectedLanguage, bufVars, timerVars,
                   uiRun, wsVars, inv, sw, nEvents, runSeq, lastChange>>

\* ------------------------------------------------------------ unmount
\* (mutant: blank code is not saved, as in the language switch)
ShouldSave_Trimmed ==
    auth /\ codeInitializedRef /\ Trimmed(currentCodeRef) /\ currentProblemRef

\* the condition of the last save of the effect cleanup
ShouldSave == auth /\ codeInitializedRef /\ Truthy(currentCodeRef) /\ currentProblemRef

Unmount ==
    /\ mounted
    /\ mounted' = FALSE
    /\ timers' = Cleared(timers, saveTimeoutRef)
    /\ saveTimeoutRef' = 0
    /\ saves' = IF ShouldSave
                THEN saves \cup {SaveCall(slug, lockedLang, currentCodeRef, "unmount", 0, bufSeq)}
                ELSE saves
    /\ UNCHANGED <<envVars, attempts, loadVars, selectedLanguage, bufVars, saving,
                   savedAt, uiRun, wsVars, inv, sw, nEvents, runSeq, lastChange>>

\* the route changes to another problem while the page stays mounted: the
\* effect's cleanup runs as on unmount, the refs are reset and fetchData starts
\* again; loading is not set, so the page goes on showing the old problem.
\* The problem routed to has the same language setting as the old one.
SlugChanges ==
    /\ mounted /\ ~fetching
    /\ nEvents < MaxEvents
    /\ nEvents' = nEvents + 1
    /\ \E sl \in Slugs \ {slug} : slug' = sl
    /\ attempts' \in Stores
    /\ timers' = Cleared(timers, saveTimeoutRef)
    /\ saveTimeoutRef' = 0
    /\ saves' = IF ShouldSave
                THEN saves \cup {SaveCall(slug, lockedLang, currentCodeRef, "unmount", 0, bufSeq)}
                ELSE saves
    /\ codeInitializedRef' = FALSE
    /\ currentCodeRef' = Empty
    /\ currentProblemRef' = FALSE
    /\ fetching' = TRUE
    /\ UNCHANGED <<envVars, mounted, loading, problem, selectedLanguage, code, bufSeq,
                   saving, savedAt, uiRun, wsVars, inv, sw, runSeq, lastChange>>

\* the call of the unmount save returns; its failure is only logged
UnmountSaveReturns(k, ok) ==
    /\ k \in saves
    /\ k.origin = "unmount"
    /\ saves' = saves \ {k}
    /\ attempts' = Written(attempts, k, ok)
    /\ UNCHANGED <<envVars, mounted, loadVars, selectedLanguage, bufVars, timerVars,
                   saving, savedAt, uiRun, wsVars, inv, sw, nEvents, runSeq, lastChange>>

\* ------------------------------------------------- execution channel
\* initializeWebSocket returns the connection it captured when that is open
InitWsReuses == wsCaptured # 0 /\ conns[wsCaptured] = "open"

\* otherwise it opens a new one, unless unauthenticated (then it returns null)
InitWsCreates == ~InitWsReuses /\ auth /\ problem

\* the id initializeWebSocket returns, 0 for null
InitWsResult ==
    IF InitWsReuses THEN wsCaptured
    ELSE IF InitWsCreates THEN Len(conns) + 1
    ELSE 0

\* (mutant: any socket will do)
SocketOpen_Unchecked(cs, ws) == ws # 0

\* ws is a socket and ws.readyState === WebSocket.OPEN
SocketOpen(cs, ws) == ws # 0 /\ cs[ws] = "open"

\* the busy flag an invocation sets and clears
SetBusy(kind, b) ==
    /\ executing' = IF mounted /\ kind = "run" THEN b ELSE executing
    /\ submitting' = IF mounted /\ kind = "submit" THEN b ELSE submitting

\* no request sent yet
NoRequest == [lang |-> 0, code |-> Empty]

\* (mutant: the request carries the buffer and language of the send time)
RequestOf_Live(rec) == [lang |-> selectedLanguage, code |-> currentCodeRef]

\* the payload of ws.send: selectedLanguage and code of the render the handler
\* was called in, the ones its silent save was given
RequestOf(rec) == [lang |-> rec.lang, code |-> rec.code]

\* ws.send succeeds for the invocation with record rec: the request leaves
\* while the buffer is at bufSeq
Sent(rec) == [rec EXCEPT !.pc = "sent", !.at = bufSeq, !.req = RequestOf(rec)]

\* the request of rec has been answered: nothing of it is pending any more
Answered(rec) ==
    [rec EXCEPT !.pc = "done", !.at = 0, !.req = NoRequest]

\* the output the catch around ws.send sets
SendFailure(i) == [kind |-> "sendFail", of |-> i]

\* handleRunCode / handleSubmitCode from the busy flag to the connection check
\* and, with an open socket, the send: i is the invocation, base the
\* invocations with i's record in place
Proceed(i, base) ==
    LET ws == InitWsResult
        cs == IF InitWsCreates THEN Append(conns, "connecting") ELSE conns
        open == SocketOpen(cs, ws)
        rec == [base[i] EXCEPT !.ws = ws]
    IN /\ SetBusy(rec.kind, TRUE)
       /\ output' = IF mounted THEN NoOutput ELSE output
       /\ submissionStatus' = IF mounted THEN FALSE ELSE submissionStatus
       /\ conns' = cs
       /\ wsConnection' = IF InitWsCreates /\ mounted THEN ws ELSE wsConnection
       /\ inv' = [base EXCEPT ![i] = IF open THEN Sent(rec)
                                     ELSE [rec EXCEPT !.pc = "wait"]]

\* the disabled attribute of the Run and Submit buttons
ButtonDisabled(kind) ==
    \/ executing
    \/ submitting
    \/ selectedLanguage = 0
    \/ (kind = "submit" /\ ~auth)

\* the immediate save is made before the request
SavesFirst(kind) == auth /\ codeInitializedRef

\* (mutant: Submit does not ask for a logged-in user)
Rejects_AnyUser(kind) == selectedLanguage = 0 \/ ~problem

\* (mutant: the handlers do not ask for a selected language)
Rejects_AnyLanguage(kind) == ~problem \/ (kind = "submit" /\ ~auth)

\* the early returns of the handlers: no language or no problem, and for
\* Submit a user who is not logged in (told so by an alert)
Rejects(kind) == selectedLanguage = 0 \/ ~problem \/ (kind = "submit" /\ ~auth)

\* handleRunCode / handleSubmitCode up to the first await
Handle(kind) ==
    /\ nEvents < MaxEvents
    /\ nEvents' = nEvents + 1
    /\ IF Rejects(kind)
       THEN UNCHANGED <<timerVars, saves, runSeq, inv, uiRun, wsConnection, conns>>
       ELSE /\ timers' = Cleared(timers, saveTimeoutRef)
            /\ saveTimeoutRef' = 0
            /\ LET i == Len(inv) + 1
                   rec == [kind |-> kind, pc |-> "save", lang |-> selectedLanguage,
                           code |-> code, seq |-> bufSeq, ws |-> 0,
                           at |-> 0, req |-> NoRequest]
               IN IF SavesFirst(kind) /\ SaveAttemptPasses(auth, problem, selectedLanguage)
                  THEN /\ saves' = saves \cup {SaveCall(slug, selectedLanguage, code, kind, i, bufSeq)}
                       /\ runSeq' = bufSeq
                       /\ inv' = Append(inv, rec)
                       /\ UNCHANGED <<uiRun, wsConnection, conns>>
                  ELSE /\ Proceed(i, Append(inv, rec))
                       /\ UNCHANGED <<saves, runSeq>>
    /\ UNCHANGED <<envVars, attempts, mounted, loadVars, selectedLanguage, bufVars,
                   saving, savedAt, wsCaptured, sw, lastChange>>

\* a click on Run or Submit: the button is rendered and not disabled
Invoke(kind) ==
    /\ Interactive
    /\ ~ButtonDisabled(kind)
    /\ Handle(kind)

handleRunCode == Invoke("run")

handleSubmitCode == Invoke("submit")

\* the silent save of a run or submit returns and the handler goes on
InvokeSaveReturns(k, ok) ==
    /\ k \in saves
    /\ k.origin \in {"run", "submit"}
    /\ saves' = saves \ {k}
    /\ attempts' = Written(attempts, k, ok)
    /\ savedAt' = SavedAtAfter(ok)
    /\ Proceed(k.who, inv)
    /\ UNCHANGED <<envVars, mounted, loadVars, selectedLanguage, bufVars, timerVars,
                   saving, wsCaptured, sw, nEvents, runSeq, lastChange>>

ConnFailure(i) == [kind |-> "connFail", of |-> i]

\* setTimeout(resolve, 500): timers of equal delay fire in the order they were
\* set, which for invocations waiting for their own sockets is the order in
\* which the sockets were created
WaitIsDue(i) ==
    \A j \in DOMAIN inv :
       (inv[j].pc = "wait" /\ inv[j].ws # 0) => inv[j].ws >= inv[i].ws

\* the 500 ms wait ends: send when the socket is open, else fail locally
WaitEnds(i) ==
    /\ i \in DOMAIN inv
    /\ inv[i].pc = "wait"
    /\ WaitIsDue(i)
    /\ IF SocketOpen(conns, inv[i].ws)
       THEN /\ inv' = [inv EXCEPT ![i] = Sent(inv[i])]
            /\ UNCHANGED uiRun
       ELSE /\ inv' = SetAt(inv, i, "pc", "done")
            /\ output' = IF mounted THEN ConnFailure(i) ELSE output
            /\ SetBusy(inv[i].kind, FALSE)
            /\ UNCHANGED submissionStatus
    /\ UNCHANGED <<envVars, attempts, mounted, loadVars, selectedLanguage, bufVars,
                   timerVars, saves, saving, savedAt, wsVars, sw, nEvents, runSeq, lastChange>>

\* the 500 ms wait ends with the socket open and ws.send throws: the catch
\* sets the output and clears the busy flag of the handler
SendThrows(i) ==
    /\ i \in DOMAIN inv
    /\ inv[i].pc = "wait"
    /\ WaitIsDue(i)
    /\ SocketOpen(conns, inv[i].ws)
    /\ inv' = SetAt(inv, i, "pc", "done")
    /\ output' = IF mounted THEN SendFailure(i) ELSE output
    /\ SetBusy(inv[i].kind, FALSE)
    /\ UNCHANGED submissionStatus
    /\ UNCHANGED <<envVars, attempts, mounted, loadVars, selectedLanguage, bufVars,
                   timerVars, saves, saving, savedAt, wsVars, sw, nEvents, runSeq, lastChange>>

MsgKinds == {"error", "result"}

\* message.mode, as the service declares it
MsgModes == {"run", "submit"}

\* the messages the service can send: an error or a result, of either mode
Messages == [type : MsgKinds, mode : MsgModes]

\* (mutant: a message ends only the request of its own mode)
EndsBusy_OwnMode(m, kind) == m.mode = kind

\* the message clears the busy flag of kind (executing for run, submitting
\* for submit): both setters are called on every path
EndsBusy(m, kind) == TRUE

\* ws.onmessage -> handleWebSocketMessage, for the reply to invocation i's request
handleWebSocketMessage(i, m) ==
    /\ i \in DOMAIN inv
    /\ inv[i].pc = "sent"
    /\ conns[inv[i].ws] = "open"
    /\ inv' = [inv EXCEPT ![i] = Answered(inv[i])]
    /\ IF mounted
       THEN /\ output' = [kind |-> m.type, of |-> i]
            /\ submissionStatus' =
                 IF m.type = "result" /\ m.mode = "submit" THEN TRUE ELSE submissionStatus
            /\ executing' = IF EndsBusy(m, "run") THEN FALSE ELSE executing
            /\ submitting' = IF EndsBusy(m, "submit") THEN FALSE ELSE submitting
       ELSE UNCHANGED uiRun
    /\ UNCHANGED <<envVars, attempts, mounted, loadVars, selectedLanguage, bufVars,
                   timerVars, saves, saving, savedAt, wsVars, sw, nEvents, runSeq, lastChange>>

\* ws.onopen
ConnOpens(c) ==
    /\ c \in DOMAIN conns
    /\ conns[c] = "connecting"
    /\ conns' = [conns EXCEPT ![c] = "open"]
    /\ UNCHANGED <<envVars, attempts, mounted, loadVars, selectedLanguage, bufVars,
                   timerVars, saves, saving, savedAt, uiRun, wsConnection,
                   wsCaptured, inv, sw, nEvents, runSeq, lastChange>>

\* a transport error or a remote close: ws.onerror (isConnected only), ws.onclose
ConnCloses(c) ==
    /\ c \in DOMAIN conns
    /\ conns[c] \in {"connecting", "open"}
    /\ conns' = [conns EXCEPT ![c] = "closed"]
    /\ wsConnection' = IF mounted THEN 0 ELSE wsConnection
    /\ UNCHANGED <<envVars, attempts, mounted, loadVars, selectedLanguage, bufVars,
                   timerVars, saves, saving, savedAt, uiRun, wsCaptured, inv, sw,
                   nEvents, runSeq, lastChange>>

\* ------------------------------------------------------ language switch
\* (mutant: the outgoing code is not saved)
SwitchSaves_Skipped == FALSE

\* the outgoing code is saved first
SwitchSaves == auth /\ selectedLanguage # 0 /\ Trimmed(code)

\* steps 2 and 3 up to the next await: select the language, ask for its code
SwitchSelects(s, base) ==
    /\ selectedLanguage' = IF mounted THEN base[s].to ELSE selectedLanguage
    /\ sw' = [base EXCEPT ![s] = [@ EXCEPT !.pc = IF auth THEN "read" ELSE "bp3"]]

\* setCode(c); currentCodeRef.current = c
Loads(c) ==
    /\ code' = IF mounted THEN c ELSE code
    /\ currentCodeRef' = c
    /\ bufSeq' = bufSeq + 1

handleLanguageChange(languageId) ==
    /\ Interactive
    /\ lockedLang = 0
    /\ languageId \in languages
    /\ languageId # selectedLanguage
    /\ nEvents < MaxEvents
    /\ nEvents' = nEvents + 1
    /\ LET s == Len(sw) + 1
           rec == [pc |-> "save", to |-> languageId, from |-> selectedLanguage,
                   code |-> code]
       IN IF SwitchSaves
          THEN /\ saves' = saves \cup {SaveCall(slug, selectedLanguage, code, "switch", s, bufSeq)}
               /\ sw' = Append(sw, rec)
               /\ UNCHANGED selectedLanguage
          ELSE /\ SwitchSelects(s, Append(sw, rec))
               /\ UNCHANGED saves
    /\ UNCHANGED <<envVars, attempts, mounted, loadVars, bufVars, timerVars, saving,
                   savedAt, uiRun, wsVars, inv, runSeq, lastChange>>

\* the save of the outgoing code returns; a failure is only logged
SwitchSaveReturns(k, ok) ==
    /\ k \in saves
    /\ k.origin = "switch"
    /\ saves' = saves \ {k}
    /\ attempts' = Written(attempts, k, ok)
    /\ SwitchSelects(k.who, sw)
    /\ UNCHANGED <<envVars, mounted, loadVars, bufVars, timerVars, saving, savedAt,
                   uiRun, wsVars, inv, nEvents, runSeq, lastChange>>

\* attemptAPI.get for the new language returns
AttemptReadReturns(s, ok) ==
    /\ s \in DOMAIN sw
    /\ sw[s].pc = "read"
    /\ IF ok /\ Trimmed(attempts[sw[s].to])
       THEN /\ Loads(attempts[sw[s].to])
            /\ sw' = SetAt(sw, s, "pc", "done")
       ELSE /\ sw' = SetAt(sw, s, "pc", IF ok THEN "bp1" ELSE "bp2")
            /\ UNCHANGED bufVars
    /\ UNCHANGED <<envVars, attempts, mounted, loadVars, selectedLanguage, timerVars,
                   saves, saving, savedAt, uiRun, wsVars, inv, nEvents, runSeq, lastChange>>

\* problemsAPI.getBoilerplate returns: bp1 is the fetch inside the try (its
\* failure is caught and the fetch repeated), bp2 the fallback, bp3 the
\* unauthenticated fetch
BoilerplateReturns(s, ok) ==
    /\ s \in DOMAIN sw
    /\ sw[s].pc \in {"bp1", "bp2", "bp3"}
    /\ IF sw[s].pc = "bp1" /\ ~ok
       THEN /\ sw' = SetAt(sw, s, "pc", "bp2")
            /\ UNCHANGED bufVars
       ELSE /\ Loads(Boilerplate(sw[s].to, ok))
            /\ sw' = SetAt(sw, s, "pc", "done")
    /\ UNCHANGED <<envVars, attempts, mounted, loadVars, selectedLanguage, timerVars,
                   saves, saving, savedAt, uiRun, wsVars, inv, nEvents, runSeq, lastChange>>

\* ------------------------------------------------------ specifications
\* loading the page, editing, and the debounced save
NextEdit ==
    \/ FetchData
    \/ FetchDataFails
    \/ \E c \in NewCodes : handleCodeChange(c)
    \/ \E t \in timers : TimerFires(t)
    \/ \E k \in saves, ok \in BOOLEAN : TimerSaveReturns(k, ok)

\* Run and Submit up to the end of the connection wait
NextInvoke ==
    \/ handleRunCode
    \/ handleSubmitCode
    \/ \E k \in saves, ok \in BOOLEAN : InvokeSaveReturns(k, ok)
    \/ \E i \in DOMAIN inv : WaitEnds(i)

\* what the execution service and the transport do
NextChannel ==
    \/ \E i \in DOMAIN inv, m \in Messages : handleWebSocketMessage(i, m)
    \/ \E c \in DOMAIN conns : ConnOpens(c)
    \/ \E c \in DOMAIN conns : ConnCloses(c)

\* the service accepts a connection
NextOpen == \E c \in DOMAIN conns : ConnOpens(c)

\* a send that throws
NextThrow == \E i \in DOMAIN inv : SendThrows(i)

NextSwitch ==
    \/ \E l \in Langs : handleLanguageChange(l)
    \/ \E k \in saves, ok \in BOOLEAN : SwitchSaveReturns(k, ok)
    \/ \E s \in DOMAIN sw, ok \in BOOLEAN : AttemptReadReturns(s, ok)
    \/ \E s \in DOMAIN sw, ok \in BOOLEAN : BoilerplateReturns(s, ok)

\* the handlers called where the page offers no enabled button for them
NextDirect ==
    \/ mounted /\ Handle("run")
    \/ mounted /\ Handle("submit")

NextNavigate ==
    \/ SlugChanges
    \/ \E k \in saves, ok \in BOOLEAN : UnmountSaveReturns(k, ok)

NextUnmount ==
    \/ Unmount
    \/ \E k \in saves, ok \in BOOLEAN : UnmountSaveReturns(k, ok)

Next ==
    \/ NextEdit \/ NextInvoke \/ NextChannel \/ NextThrow \/ NextSwitch
    \/ NextUnmount \/ NextDirect \/ NextNavigate

Spec == Init /\ [][Next]_vars

\* a Session on a locked-language problem (no language selector, an attempt
\* on the server) that stays mounted
InitLocked == Init /\ lockedLang # 0 /\ attempts[lockedLang] # Empty

SpecExec == InitLocked /\ [][NextEdit \/ NextInvoke \/ NextChannel]_vars

\* a Session whose execution service stays unreachable: every run or submit
\* ends at the connection wait
SpecSave == Init /\ [][NextEdit \/ NextInvoke \/ NextSwitch \/ NextUnmount]_vars

\* a Session whose sends may throw (a socket created for a request is still
\* connecting at the connection check, so every send follows the wait)
SpecThrow == InitLocked /\ [][NextEdit \/ NextInvoke \/ NextChannel \/ NextThrow]_vars

\* a Session on a locked-language problem up to and after its unmount
SpecLife == InitLocked /\ [][NextEdit \/ NextInvoke \/ NextChannel \/ NextUnmount]_vars

\* a Session that is routed from one problem to another
SpecNav == Init /\ [][NextEdit \/ NextInvoke \/ NextNavigate]_vars

\* a Session that is routed from one problem to another and switches language
SpecRoute == Init /\ [][NextEdit \/ NextInvoke \/ NextSwitch \/ NextNavigate]_vars

\* a logged-in user on a multi-language problem with saved attempts
InitMulti == Init /\ auth /\ lockedLang = 0 /\ languages = Langs /\ attempts[1] # Empty

\* a Session that runs and submits while the language is switched, up to the
\* sending of its requests: the service accepts the connections and has not
\* answered yet
SpecSend == InitMulti /\ [][NextEdit \/ NextInvoke \/ NextOpen \/ NextSwitch]_vars

\* a Session whose handlers are also called directly
SpecDirect == Init /\ [][NextEdit \/ NextInvoke \/ NextDirect]_vars

\* ---------------------------------------------------------------- claims
\* what a step did, read off the two states
Clicked(i) == i \in DOMAIN inv' /\ i \notin DOMAIN inv
SentNow(i) ==
    /\ i \in DOMAIN inv' /\ inv'[i].pc = "sent"
    /\ (i \in DOMAIN inv => inv[i].pc # "sent")
Pending(i) == inv[i].pc \in {"save", "wait", "sent"}
Outstanding == {i \in DOMAIN inv : inv[i].pc = "sent"}
SaveOf(i) == {k \in saves : k.origin \in {"run", "submit"} /\ k.who = i}
Issued == saves' \ saves
Returned == saves \ saves'
Fired == timers' # timers /\ nEvents' = nEvents /\ mounted'
Changed ==
    /\ nEvents' # nEvents /\ bufSeq' # bufSeq
    /\ Len(inv') = Len(inv) /\ Len(sw') = Len(sw)
Idle == ~executing /\ ~submitting

\* C1: in every reachable state at most one Execution Request has been sent
\* and not yet answered.
C1_OneOutstanding == Cardinality(Outstanding) <= 1

\* C2: once run has been invoked, every later run or submit invocation is
\* ignored until that request completes, also while the first invocation
\* still awaits its save or the connection.
C2_LaterClicksIgnored ==
    [][(\E i \in DOMAIN inv : inv[i].kind = "run" /\ Pending(i))
          => Len(inv') = Len(inv)]_vars

C4_RunSave ==
    [][/\ \A i \in DOMAIN inv' :
            (Clicked(i) /\ auth /\ codeInitializedRef) =>
               /\ timers' = {}
               /\ \E k \in Issued : k.who = i /\ k.code = code /\ k.seq = bufSeq
       /\ \A i \in DOMAIN inv : \A t \in timers : t.id > inv[i].seq
       /\ \A k \in Issued : k.seq >= runSeq]_vars

C4_Witness ==
    /\ runSeq > 1 /\ timers = {} /\ Trimmed(code)
    /\ \E k \in saves : k.origin = "run" /\ k.seq = runSeq /\ k.code = code

\* C5 as stated: in an initialized, authenticated Session an editor change
\* issues no save and leaves one timer pending, and the timer, when it
\* expires, issues exactly one save, carrying the code of the last change.
C5_Original ==
    [][/\ (Changed /\ auth /\ codeInitializedRef) =>
             Issued = {} /\ Cardinality(timers') = 1
       /\ Fired =>
             \E k \in Issued : Issued = {k} /\ k.code = lastChange /\ k.origin = "timer"]_vars

\* C5 amended: the same, provided a language is selected.
C5_Coalesced ==
    [][/\ (Changed /\ auth /\ codeInitializedRef) =>
             Issued = {} /\ Cardinality(timers') = 1
       /\ (Fired /\ selectedLanguage # 0) =>
             \E k \in Issued : Issued = {k} /\ k.code = lastChange /\ k.origin = "timer"
       /\ (Fired /\ selectedLanguage = 0) => Issued = {}]_vars

C5_Witness ==
    /\ nEvents = 2 /\ sw = <<>> /\ inv = <<>> /\ mounted
    /\ timers = {}
    /\ \E k \in saves : saves = {k} /\ k.origin = "timer" /\ k.code = code /\ k.seq = bufSeq
    /\ savedAt = 0

Started(x) == x \in DOMAIN sw' /\ x \notin DOMAIN sw
Selecting(x) ==
    /\ x \in DOMAIN sw' /\ sw'[x].pc # "save"
    /\ (x \in DOMAIN sw => sw[x].pc = "save")

\* C6: a language switch by an authenticated user with a non-blank buffer
\* issues a save of the outgoing buffer under the outgoing language, and
\* selects the new language (and reads its attempt) only when that call has
\* returned.
C6_SaveBeforeSwitch ==
    [][/\ \A x \in DOMAIN sw' :
            (Started(x) /\ auth /\ Trimmed(code)) =>
               /\ \E k \in Issued :
                     k.who = x /\ k.origin = "switch"
                     /\ k.lang = selectedLanguage /\ k.code = code
               /\ sw'[x].pc = "save"
               /\ UNCHANGED <<selectedLanguage, code, currentCodeRef>>
       /\ \A x \in DOMAIN sw :
            /\ (sw[x].pc = "save" /\ sw'[x].pc # "save") =>
                  /\ \E k \in Returned :
                        k.who = x /\ k.origin = "switch"
                        /\ k.lang = sw[x].from /\ k.code = sw[x].code
                  /\ sw'[x].pc \in {"read", "bp3"}
                  /\ UNCHANGED <<code, currentCodeRef>>
            /\ sw[x].pc # "save" =>
                  {k \in saves : k.who = x /\ k.origin = "switch"} = {}
       /\ (~loading /\ selectedLanguage' # selectedLanguage) =>
            \E x \in DOMAIN sw' : Selecting(x) /\ selectedLanguage' = sw'[x].to
       /\ (~loading /\ code' # code /\ ~Changed) =>
            \E x \in DOMAIN sw :
                sw[x].pc \in {"read", "bp1", "bp2", "bp3"} /\ sw'[x].pc = "done"]_vars

C6_Witness ==
    /\ mounted /\ Len(sw) = 1 /\ sw[1].pc = "done"
    /\ Trimmed(sw[1].code) /\ sw[1].code.v > 1
    /\ attempts[sw[1].from] = sw[1].code
    /\ selectedLanguage = sw[1].to /\ code = Prior(sw[1].to)

\* C7: no save call pairs the id of one language with code that was loaded
\* or written for another language.
C7_NoCrossLanguageSave ==
    \A k \in saves : (k.lang # 0 /\ k.code.lang # 0) => k.lang = k.code.lang

\* C8: unmounting an authenticated, initialized Session with a non-empty
\* buffer cancels the pending debounce timer and issues exactly one save
\* call, carrying the buffer; after the unmount no timer is pending and no
\* further save is issued.
C8_UnmountSave ==
    [][/\ (mounted /\ ~mounted' /\ auth /\ codeInitializedRef /\ Truthy(code)) =>
             /\ timers' = {}
             /\ \E k \in Issued : Issued = {k} /\ k.code = code /\ k.origin = "unmount"
       /\ ~mounted => (timers = {} /\ Issued = {})]_vars

C8_Witness ==
    /\ ~mounted /\ lastChange = Space /\ saveTimeoutRef = 0
    /\ \E k \in saves : k.origin = "unmount" /\ k.code = Space /\ k.seq > 1
    /\ \A k \in saves : k.origin # "timer"
    /\ savedAt = 0 /\ inv = <<>> /\ sw = <<>>

\* C9: when the connection closes before the result of a sent request has
\* arrived, the Session returns to Idle with an error result.
C9_CloseReturnsToIdle ==
    [][\A i \in DOMAIN inv :
         (inv[i].pc = "sent" /\ conns[inv[i].ws] = "open" /\ conns'[inv[i].ws] = "closed")
            => (Idle' /\ output'.kind \in {"error", "connFail"})]_vars

\* C10: when the connection wait of a run or submit ends with the connection
\* not open, the output becomes the connection-failure result, the mode
\* returns to Idle and no request is sent for that invocation.
C10_WaitFailure ==
    [][\A i \in DOMAIN inv :
         (mounted /\ inv[i].pc = "wait" /\ inv'[i].pc # "wait"
            /\ (inv[i].ws = 0 \/ conns[inv[i].ws] # "open"))
            => (output' = ConnFailure(i) /\ Idle' /\ inv'[i].pc = "done")]_vars

\* a step in which the reply to a sent request is handled
Replied(i) == i \in DOMAIN inv /\ inv[i].pc = "sent" /\ inv'[i].pc = "done"

\* C11: a result or error message handled while the mode is Running or
\* Submitting sets the mode to Idle and becomes the output, whichever of run
\* or submit sent the request and whatever mode the message declares.
C11_MessageEndsRequest ==
    [][(mounted /\ \E i \in DOMAIN inv : Replied(i))
          => (Idle' /\ output'.kind \in MsgKinds)]_vars

\* a submit was answered by a result that declared mode "run"
C11_Witness ==
    /\ mounted /\ Idle /\ submissionStatus = FALSE
    /\ \E i \in DOMAIN inv :
          /\ inv[i].kind = "submit" /\ inv[i].pc = "done"
          /\ output = [kind |-> "result", of |-> i]

\* a step in which invocation i takes its connection step
Connects(i) ==
    /\ i \in DOMAIN inv'
    /\ Clicked(i) \/ inv[i].pc = "save"
    /\ inv'[i].pc \in {"wait", "sent"}

Live == {c \in DOMAIN conns : conns[c] \in {"connecting", "open"}}

\* C12: when the Session's Connection is open as a run or submit reaches its
\* connection step, that Connection is the one used and none is created.
C12_ConnectionReused ==
    [][\A i \in DOMAIN inv' :
         (Connects(i) /\ wsConnection # 0 /\ conns[wsConnection] = "open")
            => (inv'[i].ws = wsConnection /\ conns' = conns)]_vars

\* C13: in every reachable state at most one Connection of the Session is
\* connecting or open.
C13_OneLiveConnection == Cardinality(Live) <= 1

\* a step in which a handler was called and returned at once
ReturnedEarly ==
    /\ nEvents' # nEvents /\ bufSeq' = bufSeq
    /\ Len(inv') = Len(inv) /\ Len(sw') = Len(sw)

\* what a rejected call must leave alone
Untouched ==
    UNCHANGED <<timers, saveTimeoutRef, saves, conns, wsConnection, executing,
                submitting, output, submissionStatus, code, currentCodeRef, inv>>

\* C14: a submit by a user who is not logged in gets no further than the
\* rejection: no submit is ever started, and the rejected call leaves timer,
\* saves, connections, mode, output and submission status as they were.
C14_SubmitRejected ==
    [][~auth =>
         /\ \A i \in DOMAIN inv' : Clicked(i) => inv'[i].kind # "submit"
         /\ ReturnedEarly => Untouched]_vars

\* a logged-out user with a language and a problem whose only call so far
\* was rejected: it can only have been a submit
C14_Witness ==
    /\ ~auth /\ mounted /\ problem /\ selectedLanguage # 0
    /\ nEvents = 1 /\ bufSeq = 1 /\ inv = <<>>
    /\ output = NoOutput /\ Idle /\ conns = <<>>

\* C15: a run or submit called with no language selected or no problem loaded
\* changes nothing: timer, buffer, mode, output, submission status and
\* connection stay as they were, no save and no request is issued.
C15_NoLanguageNoOp ==
    [][(selectedLanguage = 0 \/ ~problem) =>
         /\ Len(inv') = Len(inv)
         /\ ReturnedEarly => Untouched]_vars

\* a logged-in user on a loaded problem without languages, after an edit
\* armed the timer and a call was rejected: the timer is still pending
C15_Witness ==
    /\ auth /\ mounted /\ problem /\ selectedLanguage = 0
    /\ nEvents = 2 /\ bufSeq = 2 /\ inv = <<>> /\ timers # {}
    /\ saves = {} /\ conns = <<>> /\ Idle

\* C16: the save made when the debounce timer expires is silent: the saving
\* indicator does not become true because of it.
C16_DebounceSilent ==
    [][(\E k \in Issued : k.origin = "timer") => saving' = saving]_vars

\* C18: in every reachable state at most one save call is in flight.
C18_OneSaveInFlight == Cardinality(saves) <= 1

\* C17: an editor change always makes the new code the buffer of record (the
\* code state and currentCodeRef); it leaves a timer pending only if the
\* initialization flag is set, and none if the flag is unset; and no state
\* has more than one debounce timer pending.
C17_ArmsOnlyInitialized ==
    [][/\ Changed =>
             /\ code' = lastChange' /\ currentCodeRef' = lastChange'
             /\ timers' # {} => codeInitializedRef
             /\ (auth /\ codeInitializedRef) =>
                    \E t \in timers' : timers' = {t} /\ t.code = lastChange'
       /\ Cardinality(timers') <= 1]_vars

\* an edit made after a route change, before the new buffer is loaded
C17_Witness ==
    /\ auth /\ mounted /\ fetching /\ ~codeInitializedRef /\ slug = 2
    /\ nEvents = 2 /\ Trimmed(code) /\ code = lastChange /\ currentCodeRef = code
    /\ timers = {} /\ saveTimeoutRef = 0

\* a step in which switch x loads the buffer and ends
Completes(x) == x \in DOMAIN sw /\ sw[x].pc # "done" /\ sw'[x].pc = "done"

\* C19: a language switch ends with the buffer holding code of the new
\* language: the saved attempt when its read succeeded with non-blank code,
\* else the fetched boilerplate, else the static default; a failed step goes
\* on to the next one and ends with boilerplate of the new language, never
\* with the code that was in the buffer.
C19_SwitchResolves ==
    [][\A x \in DOMAIN sw :
         /\ (sw[x].pc = "read" /\ sw'[x].pc # "read") =>
               IF Trimmed(attempts[sw[x].to])
               THEN sw'[x].pc \in {"done", "bp2"}
               ELSE sw'[x].pc \in {"bp1", "bp2"}
         /\ (sw[x].pc = "bp1" /\ sw'[x].pc # "bp1") => sw'[x].pc \in {"done", "bp2"}
         /\ (sw[x].pc \in {"bp2", "bp3"} /\ sw'[x].pc # sw[x].pc) => sw'[x].pc = "done"
         /\ (mounted /\ Completes(x)) =>
               /\ currentCodeRef' = code'
               /\ sw[x].pc = "read" => (code' = attempts[sw[x].to] /\ Trimmed(code'))
               /\ sw[x].pc # "read" => code' \in {Dyn(sw[x].to), Static(sw[x].to)}]_vars

\* the attempt read and both boilerplate fetches failed for a language that
\* has a saved attempt: the buffer is the static default of the new language
C19_Witness ==
    /\ auth /\ mounted /\ Len(sw) = 1 /\ sw[1].pc = "done"
    /\ Trimmed(sw[1].code) /\ sw[1].code.lang = sw[1].from
    /\ Trimmed(attempts[sw[1].to])
    /\ selectedLanguage = sw[1].to
    /\ code = Static(sw[1].to) /\ currentCodeRef = code

\* a step in which save call k returned without its write being applied
FailedNow(k) ==
    /\ k \in Returned
    /\ k.lang \in Langs /\ k.slug = slug
    /\ attempts'[k.lang] # k.code

\* C20: a save call that fails leaves the last-saved timestamp as it was and
\* is not retried: every save call is issued by a user event, a timer expiry
\* or the unmount, never by the return of another save; the failure does not
\* stop the run or submit that made it from going on to its connection and
\* send, nor a later edit from arming the timer.
C20_FailedSave ==
    [][/\ \A k \in saves :
             FailedNow(k) =>
                /\ savedAt' = savedAt
                /\ Issued = {} /\ timers' = timers
                /\ k.origin \in {"run", "submit"} => inv'[k.who].pc \in {"wait", "sent"}
       /\ Issued # {} =>
             \/ nEvents' # nEvents
             \/ \E t \in timers : t \notin timers'
             \/ mounted /\ ~mounted'
       /\ (Changed /\ auth /\ codeInitializedRef) => timers' # {}]_vars

\* a run whose save failed has sent its request, and an edit made after the
\* click has armed the timer
C20_Witness ==
    /\ auth /\ mounted /\ savedAt = 0
    /\ \E i \in DOMAIN inv :
          /\ inv[i].pc = "sent"
          /\ \E t \in timers : t.id > inv[i].seq

\* a step in which connection c is closed by an error or by the service
ClosedNow(c) == c \in DOMAIN conns /\ conns[c] # "closed" /\ conns'[c] = "closed"

\* C21: a Connection that closed is discarded: the Session's reference does
\* not point to it afterwards and no request is sent on it; and the close of
\* one Connection leaves a reference to another Connection as it was.
C21_ClosedDiscarded ==
    [][/\ \A c \in DOMAIN conns :
             (mounted /\ ClosedNow(c)) =>
                /\ wsConnection' # c
                /\ wsConnection # c => wsConnection' = wsConnection
       /\ \A i \in DOMAIN inv' : SentNow(i) => conns'[inv'[i].ws] = "open"]_vars

\* C22: after the unmount no Connection of the Session is connecting or open.
C22_TornDownOnUnmount == ~mounted => Live = {}

\* C30: after the unmount no Connection is opened and no Execution Request
\* is sent, also for a run or submit that was awaiting its save or its
\* connection when the page was unmounted.
C30_QuietAfterUnmount ==
    [][~mounted =>
         /\ Len(conns') = Len(conns)
         /\ \A i \in DOMAIN inv' : ~SentNow(i)]_vars

\* C23: a language switch cancels the pending debounce timer before it saves
\* the outgoing code: the switch leaves no timer pending and issues at most
\* the one save of the outgoing language, and no timer armed before a switch
\* fires after it.
C23_SwitchCancelsTimer ==
    [][/\ \A x \in DOMAIN sw' :
             Started(x) =>
                /\ timers' = {}
                /\ \A k \in Issued : k.origin = "switch" /\ k.lang = selectedLanguage
       /\ \A t \in timers :
             (t \notin timers' /\ \E k \in Issued : k.origin = "timer")
                => sw = <<>>]_vars

\* C24: when a second language switch is started while an earlier one is
\* still awaiting its save, attempt read or boilerplate, then after both have
\* completed the selected language is the second switch's and the buffer
\* holds the code resolved for it (its saved attempt or its boilerplate).
C24_LatestSwitchWins ==
    (/\ mounted
     /\ Len(sw) = 2
     /\ \A x \in DOMAIN sw : sw[x].pc = "done"
     /\ sw[1].to # sw[2].to)
       => /\ selectedLanguage = sw[2].to
          /\ code \in {attempts[sw[2].to], Dyn(sw[2].to), Static(sw[2].to)}

\* C25: every result or error message applied to the output answers the most
\* recently sent request: no request sent after the one the message belongs
\* to, on its connection or on another, is awaiting its reply. (Each
\* invocation sends at the end of its wait on the socket it created, so among
\* requests on different sockets the one on the later socket was sent later.)
C25_ReplyToLatest ==
    [][\A i \in DOMAIN inv :
         (mounted /\ Replied(i)) =>
            \A j \in DOMAIN inv :
               inv[j].pc = "sent" => inv[j].ws <= inv[i].ws]_vars

\* a step in which the send of invocation i throws
Threw(i) ==
    /\ inv[i].pc = "wait" /\ inv'[i].pc = "done"
    /\ SocketOpen(conns, inv[i].ws)

\* C26: when sending the request throws, for run and for submit, the output
\* becomes the synthesized send-failure result, the mode returns to Idle and
\* the send is not tried again: the invocation ends with no request sent.
C26_SendThrows ==
    [][\A i \in DOMAIN inv :
         (mounted /\ Threw(i)) =>
            /\ output' = SendFailure(i)
            /\ Idle'
            /\ inv'[i].req = NoRequest
            /\ conns' = conns]_vars

\* C27: no persistence write is issued while the initialization flag is
\* false, whatever issues it: the debounce timer, run or submit, a language
\* switch or the unmount.
C27_NoWriteBeforeInit == [][Issued # {} => codeInitializedRef]_vars

\* C28: the persistence call issued on unmount is addressed to the currently
\* selected language, for locked-language and for multi-language problems.
C28_UnmountSaveLanguage ==
    [][\A k \in Issued : k.origin = "unmount" => k.lang = selectedLanguage]_vars

\* C29: for every run or submit that sends a request, the code and language
\* of the request equal the code and language of the silent save issued by
\* the same invocation, also when the buffer is edited or the language
\* switched while the save or the connection wait is pending: the save
\* carries what the invocation captured, the capture does not change, and
\* the request carries the capture.
C29_RequestMatchesSave ==
    [][/\ \A i \in DOMAIN inv' :
             Clicked(i) =>
                \A k \in Issued :
                   k.origin \in {"run", "submit"} =>
                      /\ k.who = i
                      /\ k.code = inv'[i].code
                      /\ k.lang = inv'[i].lang
       /\ \A i \in DOMAIN inv :
             /\ inv'[i].code = inv[i].code
             /\ inv'[i].lang = inv[i].lang
       /\ \A i \in DOMAIN inv' :
             SentNow(i) =>
                inv'[i].req = [lang |-> inv'[i].lang, code |-> inv'[i].code]]_vars

\* a request sent after the language was switched and the buffer replaced
\* while the invocation was pending
C29_Witness ==
    \E i \in DOMAIN inv :
       /\ inv[i].pc = "sent"
       /\ inv[i].at > inv[i].seq
       /\ selectedLanguage # inv[i].req.lang
       /\ currentCodeRef # inv[i].req.code

====
